---------------------------- MODULE Spec2Model ----------------------------
(***************************************************************************)
(* Cost-estimation tables for LLM usage: make_df_cost, which expands       *)
(* workload parameters into a scenario table, and calculate_total_cost,    *)
(* which adds per-model cost columns to it.                                *)
(*                                                                         *)
(*   src/cost_model.py            make_df_cost (nested loops),             *)
(*                                calculate_total_cost                     *)
(*   src/functions/cost_model.py  make_df_cost (numpy meshgrid),           *)
(*                                calculate_total_cost (same code)         *)
(*                                                                         *)
(* Numbers.  Python ints and floats are modelled as exact rationals        *)
(* <<n, d>> in lowest terms (d > 0), so that / 10**6 and the products with *)
(* fractional rates are computed, not rounded; floating-point rounding is  *)
(* not modelled.                                                           *)
(*                                                                         *)
(* Tables.  A pandas DataFrame is a record                                 *)
(*   [index   : the sequence of row labels,                                *)
(*    columns : the sequence of column names, in order,                    *)
(*    data    : column name -> sequence of cell values, one per row].      *)
(* Column names of the input tables are assumed distinct.                  *)
(***************************************************************************)
EXTENDS Integers, Sequences, FiniteSets, TLC

VARIABLES
    args,    \* the arguments of the call in progress (a record)
    heap,    \* object id -> DataFrame: the tables the call can reach
    ret,     \* what the last call did: [status, df]
    pc,      \* "ready" before the call; after it, the function that ran
    round,   \* the number of calls of calculate_total_cost made
    first    \* what the first call of calculate_total_cost did

vars == <<args, heap, ret, pc, round, first>>

-----------------------------------------------------------------------------
(* Bounds of the model.                                                    *)

\* The longest input collection of make_df_cost (calls, q_length, ...).
MaxLen == 2
\* The most rows of a scenario table handed to calculate_total_cost.
MaxRows == 2
\* The longest models list.
MaxModels == 2

-----------------------------------------------------------------------------
(* Numbers.                                                                *)

RECURSIVE GCD(_, _)
GCD(a, b) == IF b = 0 THEN a ELSE GCD(b, a % b)

\* The rational n/d in lowest terms (n >= 0, d > 0).
Norm(n, d) == LET g == GCD(n, d) IN <<n \div g, d \div g>>

\* The int n.
R(n) == <<n, 1>>

\* x * y, cancelling across before multiplying.
Mul(x, y) ==
    LET g1 == GCD(x[1], y[2])
        g2 == GCD(y[1], x[2])
    IN  IF x[1] = 0 \/ y[1] = 0 THEN <<0, 1>>
        ELSE <<(x[1] \div g1) * (y[1] \div g2), (x[2] \div g2) * (y[2] \div g1)>>

\* x / y (y # 0)
Div(x, y) == Mul(x, <<y[2], y[1]>>)

\* x + y, over the least common denominator.
Add(x, y) ==
    LET g == GCD(x[2], y[2])
    IN  Norm(x[1] * (y[2] \div g) + y[1] * (x[2] \div g), (x[2] \div g) * y[2])

\* 10**6 (src/cost_model.py:79), 1e6 (src/functions/cost_model.py:61)
Million == 1000000

-----------------------------------------------------------------------------
(* Sequences.                                                              *)

Range(s) == {s[i] : i \in DOMAIN s}

\* All sequences over S of length 0..n.
SeqsUpTo(S, n) == UNION {[1..k -> S] : k \in 0..n}

RECURSIVE Flatten(_)
\* The concatenation of a sequence of sequences.
Flatten(ss) == IF ss = <<>> THEN <<>> ELSE Head(ss) \o Flatten(Tail(ss))

RECURSIVE Product(_)
\* The product of a sequence of naturals.
Product(s) == IF s = <<>> THEN 1 ELSE Head(s) * Product(Tail(s))

Reverse(s) == [i \in 1..Len(s) |-> s[Len(s) + 1 - i]]

-----------------------------------------------------------------------------
(* DataFrames.                                                             *)

\* pd.DataFrame with no rows and no columns.
EmptyFrame == [index |-> <<>>, columns |-> <<>>, data |-> <<>>]

\* A call's outcome: status is "ok" or the exception raised.
Ok(df) == [status |-> "ok", df |-> df]
Raise(exc) == [status |-> exc, df |-> EmptyFrame]
NoCall == [status |-> "none", df |-> EmptyFrame]

\* name in df.columns
HasColumn(df, name) == name \in Range(df.columns)

\* df[name] = values, for values of the index's length: an existing column
\* is replaced where it stands, a new one goes last.
SetColumn(df, name, values) ==
    [index   |-> df.index,
     columns |-> IF HasColumn(df, name) THEN df.columns
                 ELSE Append(df.columns, name),
     data    |-> [c \in Range(df.columns) \cup {name} |->
                     IF c = name THEN values ELSE df.data[c]]]

NRows(df) == Len(df.index)

-----------------------------------------------------------------------------
(* make_df_cost, nested loops (src/cost_model.py).                         *)

ScenarioColumns ==
    <<"employees", "calls", "avg_words_per_q", "avg_words_per_a", "tokens_per_word">>

\* The employee count written into the token formulas.
HardCodedEmployees == 800

\* m_tokens_sent of one iteration: ((800 * call) * q * tokens_per_word) / 10**6
LoopTokensSent(call, q, tokens_per_word) ==
    Div(Mul(Mul(Mul(R(HardCodedEmployees), call), q), tokens_per_word), R(Million))

\* m_tokens_received of one iteration: ((800 * call) * a * tokens_per_word) / 10**6
LoopTokensReceived(call, a, tokens_per_word) ==
    Div(Mul(Mul(Mul(R(HardCodedEmployees), call), a), tokens_per_word), R(Million))

\* temp_df of one iteration: pd.DataFrame(data, index=[0]) and the two
\* token columns.
TempDf(employees, call, q, a, tokens_per_word) ==
    LET data == [c \in Range(ScenarioColumns) |->
                    CASE c = "employees"       -> <<employees>>
                      [] c = "calls"           -> <<call>>
                      [] c = "avg_words_per_q" -> <<q>>
                      [] c = "avg_words_per_a" -> <<a>>
                      [] c = "tokens_per_word" -> <<tokens_per_word>>]
        temp_df == [index |-> <<0>>, columns |-> ScenarioColumns, data |-> data]
        sent == SetColumn(temp_df, "m_tokens_sent",
                          <<LoopTokensSent(call, q, tokens_per_word)>>)
    IN  SetColumn(sent, "m_tokens_received",
                  <<LoopTokensReceived(call, a, tokens_per_word)>>)

\* A variant of DfList with  df_list.append(temp_df)  one level out: one
\* frame for each call and q, that of the last a.
DfListAppendOutside(employees, calls, q_length, a_length, tokens_per_word) ==
    Flatten([ic \in 1..Len(calls) |->
        Flatten([iq \in 1..Len(q_length) |->
            IF a_length = <<>> THEN <<>>
            ELSE <<TempDf(employees, calls[ic], q_length[iq],
                          a_length[Len(a_length)], tokens_per_word)>>])])

\* df_list after the three nested loops: calls outermost, a_length innermost.
DfList(employees, calls, q_length, a_length, tokens_per_word) ==
    Flatten([ic \in 1..Len(calls) |->
        Flatten([iq \in 1..Len(q_length) |->
            [ia \in 1..Len(a_length) |->
                TempDf(employees, calls[ic], q_length[iq], a_length[ia],
                       tokens_per_word)]])])

\* pd.concat(dfs) of frames with the same columns (dfs not empty): the rows
\* stacked, each keeping its label.
Concat(dfs) ==
    [index   |-> Flatten([i \in 1..Len(dfs) |-> dfs[i].index]),
     columns |-> dfs[1].columns,
     data    |-> [c \in Range(dfs[1].columns) |->
                     Flatten([i \in 1..Len(dfs) |-> dfs[i].data[c]])]]

\* df.reset_index(drop=True): the labels become 0, 1, 2, ...
ResetIndex(df) == [df EXCEPT !.index = [i \in 1..Len(df.index) |-> i - 1]]

-----------------------------------------------------------------------------
(* make_df_cost, numpy meshgrid (src/functions/cost_model.py).             *)
(* An ndarray is [shape, flat]: flat holds the elements in C order.        *)

RECURSIVE Ravel(_, _)
\* The position (from 0) in C order of the element at multi-index idx.
Ravel(idx, shape) ==
    IF idx = <<>> THEN 0
    ELSE Head(idx) * Product(Tail(shape)) + Ravel(Tail(idx), Tail(shape))

\* The multi-index (from 0) of the element at position f in C order.
Unravel(f, shape) ==
    [k \in 1..Len(shape) |->
        (f \div Product(SubSeq(shape, k + 1, Len(shape)))) % shape[k]]

\* np.meshgrid(x1, ..., xn), indexing='xy': n arrays of shape
\* (N2, N1, N3, ..., Nn); the k-th repeats xk along its own axis.
Meshgrid(xs) ==
    LET n == Len(xs)
        shape == [k \in 1..n |-> CASE k = 1 -> Len(xs[2])
                                   [] k = 2 -> Len(xs[1])
                                   [] OTHER -> Len(xs[k])]
        axis(k) == CASE k = 1 -> 2 [] k = 2 -> 1 [] OTHER -> k
    IN  [k \in 1..n |->
            [shape |-> shape,
             flat  |-> [f \in 1..Product(shape) |->
                           xs[k][Unravel(f - 1, shape)[axis(k)] + 1]]]]

\* np.array(arrays) of arrays of one shape: stacked along a new first axis
\* (ints among floats become floats of the same value).
Stack(arrays) ==
    [shape |-> <<Len(arrays)>> \o arrays[1].shape,
     flat  |-> Flatten([k \in 1..Len(arrays) |-> arrays[k].flat])]

\* a.T: the axes reversed.
Transpose(a) ==
    LET shape == Reverse(a.shape)
    IN  [shape |-> shape,
         flat  |-> [f \in 1..Len(a.flat) |->
                       a.flat[Ravel(Reverse(Unravel(f - 1, shape)), a.shape) + 1]]]

\* a.reshape(-1, ncols)
Reshape(a, ncols) ==
    [shape |-> <<Len(a.flat) \div ncols, ncols>>, flat |-> a.flat]

\* pd.DataFrame(a, columns=names) of a 2-d array: a RangeIndex.
FrameOfArray(a, names) ==
    [index   |-> [r \in 1..a.shape[1] |-> r - 1],
     columns |-> names,
     data    |-> [c \in Range(names) |->
                     LET k == CHOOSE k \in 1..Len(names) : names[k] = c
                     IN  [r \in 1..a.shape[1] |-> a.flat[(r - 1) * a.shape[2] + k]]]]

\* ((df['employees'] * df['calls']) * df[words] * df['tokens_per_word']) / 1e6
VecTokens(df, words) ==
    [r \in 1..NRows(df) |->
        Div(Mul(Mul(Mul(df.data["employees"][r], df.data["calls"][r]),
                    df.data[words][r]),
                df.data["tokens_per_word"][r]),
            R(Million))]

-----------------------------------------------------------------------------
(* The calls of make_df_cost.                                              *)

\* The values the collections are filled from: two employee counts and two
\* call counts (800 is the count written into src/cost_model.py), one
\* question length, one answer length, the fraction 1.5 for tokens_per_word.
EmployeesPool == {R(800), R(1000)}
CallsPool == {R(50), R(100)}
QLengthPool == {R(50)}
ALengthPool == {R(100)}
TokensPerWordPool == {<<3, 2>>}

BuildArgs ==
    [employees       : SeqsUpTo(EmployeesPool, MaxLen),
     calls           : SeqsUpTo(CallsPool, MaxLen),
     q_length        : SeqsUpTo(QLengthPool, MaxLen),
     a_length        : SeqsUpTo(ALengthPool, MaxLen),
     tokens_per_word : SeqsUpTo(TokensPerWordPool, MaxLen)]

InitBuild ==
    /\ args \in BuildArgs
    /\ heap = <<>>
    /\ ret = NoCall
    /\ pc = "ready"
    /\ round = 0
    /\ first = NoCall

\* make_df_cost of src/cost_model.py, called with single values for employees
\* and tokens_per_word: the loops fill df_list, and pd.concat raises
\* ValueError for an empty list.
make_df_cost_loop ==
    /\ pc = "ready"
    /\ Len(args.employees) = 1
    /\ Len(args.tokens_per_word) = 1
    /\ \E df_list \in {DfList(args.employees[1], args.calls, args.q_length,
                              args.a_length, args.tokens_per_word[1])} :
          IF df_list = <<>>
          THEN ret' = Raise("ValueError")
          ELSE \E df \in {Concat(df_list)} : ret' = Ok(ResetIndex(df))
    /\ pc' = "loop"
    /\ UNCHANGED <<args, heap, round, first>>

\* make_df_cost of src/functions/cost_model.py, statement by statement.
make_df_cost_vec ==
    /\ pc = "ready"
    /\ \E mesh \in {Stack(Meshgrid(<<args.employees, args.calls, args.q_length,
                                     args.a_length, args.tokens_per_word>>))} :
       \E combinations \in {Reshape(Transpose(mesh), 5)} :
       \E df \in {FrameOfArray(combinations, ScenarioColumns)} :
       \E sent \in {SetColumn(df, "m_tokens_sent", VecTokens(df, "avg_words_per_q"))} :
          ret' = Ok(SetColumn(sent, "m_tokens_received",
                              VecTokens(sent, "avg_words_per_a")))
    /\ pc' = "vec"
    /\ UNCHANGED <<args, heap, round, first>>

NextBuild == make_df_cost_loop \/ make_df_cost_vec

SpecBuild == InitBuild /\ [][NextBuild]_vars

-----------------------------------------------------------------------------
(* calculate_total_cost (src/cost_model.py, src/functions/cost_model.py:   *)
(* the same code).  The tables are objects of the heap: 1 and 2 are the    *)
(* caller's df_costs and df_llms, 3 and 4 the copies the function makes.   *)

CallerCosts == 1
CallerLlms == 2

\* f'Question cost {model} (USD)' and the other two generated names.
QuestionCol(model) == "Question cost " \o model \o " (USD)"
AnswerCol(model) == "Answer cost " \o model \o " (USD)"
TotalCol(model) == "Total cost " \o model \o " (USD)"

\* A variant of CopyRef without the copy: the local name stays bound to
\* the caller's object.
NoCopyRef(obj) == obj

\* The object a local name is bound to by  name = obj.copy() : a new one.
CopyRef(obj) == obj + 2

\* The contents of df.copy(): those of df.
CopyOf(df) == df

\* An outcome of a statement on a table: status is "ok" or the exception
\* raised; df is the table as the statement left it.
Done(df) == [status |-> "ok", df |-> df]
Failed(exc, df) == [status |-> exc, df |-> df]

\* np.array(df_llms.loc[df_llms['modell'] == model, col]): the values of
\* col in the rows of df_llms whose 'modell' is model, in order.
Loc(df_llms, model, col) ==
    LET hits == SelectSeq([r \in 1..NRows(df_llms) |-> r],
                          LAMBDA r : df_llms.data["modell"][r] = model)
    IN  [k \in 1..Len(hits) |-> df_llms.data[col][hits[k]]]

\* Whether numpy broadcasts two 1-d arrays of n and k elements.
Broadcasts(n, k) == n = k \/ n = 1 \/ k = 1

\* x * y of two 1-d arrays that broadcast: element by element, a single
\* element repeated against the other array.
NpMul(x, y) ==
    [i \in 1..(IF Len(x) = 1 THEN Len(y) ELSE Len(x)) |->
        Mul(x[IF Len(x) = 1 THEN 1 ELSE i], y[IF Len(y) = 1 THEN 1 ELSE i])]

\* df[name] = df[tokens_col].values * np.array(df_llms.loc[..., cost_col])
\*   KeyError:   df has no column tokens_col; df_llms has no 'modell' or
\*               cost_col column
\*   ValueError: the two arrays do not broadcast; the product's length is
\*               not the length of df's index
AssignProduct(df, name, tokens_col, df_llms, model, cost_col) ==
    IF ~HasColumn(df, tokens_col) THEN Failed("KeyError", df)
    ELSE IF ~HasColumn(df_llms, "modell") \/ ~HasColumn(df_llms, cost_col)
    THEN Failed("KeyError", df)
    ELSE IF ~Broadcasts(NRows(df), Len(Loc(df_llms, model, cost_col)))
    THEN Failed("ValueError", df)
    ELSE IF Len(NpMul(df.data[tokens_col], Loc(df_llms, model, cost_col))) # NRows(df)
    THEN Failed("ValueError", df)
    ELSE Done(SetColumn(df, name,
                        NpMul(df.data[tokens_col], Loc(df_llms, model, cost_col))))

\* df[x] + df[y] of two columns of one table.
SeriesAdd(x, y) == [i \in 1..Len(x) |-> Add(x[i], y[i])]

\* df[f'Total cost {model} (USD)'] = df[question] + df[answer]
AssignTotal(df, model) ==
    Done(SetColumn(df, TotalCol(model),
                   SeriesAdd(df.data[QuestionCol(model)], df.data[AnswerCol(model)])))

\* One iteration of  for model in models : the three assignments, for the
\* arguments a of the call; an exception ends it.
Iteration(a, df, df_llms, model) ==
    LET question == AssignProduct(df, QuestionCol(model), a.tokens_sent_col,
                                  df_llms, model, a.cost_sent)
        answer == AssignProduct(question.df, AnswerCol(model), a.tokens_received_col,
                                df_llms, model, a.cost_rec)
    IN  IF question.status # "ok" THEN question
        ELSE IF answer.status # "ok" THEN answer
        ELSE AssignTotal(answer.df, model)

RECURSIVE ForModels(_, _, _, _)
\* The loop over a.models from its i-th entry on, on the heap h: the heap and
\* the status it ends with.  Each iteration writes the table that the local
\* name df_costs is bound to (refs.df_costs), and an exception ends the loop.
ForModels(a, h, refs, i) ==
    IF i > Len(a.models) THEN [status |-> "ok", heap |-> h]
    ELSE CHOOSE out \in
            {IF o.status = "ok"
             THEN ForModels(a, [h EXCEPT ![refs.df_costs] = o.df], refs, i + 1)
             ELSE [status |-> o.status, heap |-> [h EXCEPT ![refs.df_costs] = o.df]]
               : o \in {Iteration(a, h[refs.df_costs], h[refs.df_llms], a.models[i])}}
            : TRUE

-----------------------------------------------------------------------------
(* The calls of calculate_total_cost.                                      *)

Models == {"A", "B"}

\* The columns a scenario table is made of, and the two rows it is filled
\* from: the spec's example (2.66 and 5.32 million tokens) and the
\* docstring's (1.5 and 1.0); the third column bears a generated name.
TableColumns == <<"m_tokens_sent", "m_tokens_received", QuestionCol("A")>>

RowPool ==
    {[c \in Range(TableColumns) |->
        CASE c = "m_tokens_sent" -> <<133, 50>>
          [] c = "m_tokens_received" -> <<133, 25>>
          [] OTHER -> <<7, 1>>],
     [c \in Range(TableColumns) |->
        CASE c = "m_tokens_sent" -> <<3, 2>>
          [] c = "m_tokens_received" -> <<1, 1>>
          [] OTHER -> <<9, 1>>]}

\* The pricing entries: two for A (0.01 and 0.015, 0.02 and 0.025), one for B
\* (0.05 and 0.125).
EntryPool ==
    {[modell |-> "A", cost_sent |-> <<1, 100>>, cost_rec |-> <<3, 200>>],
     [modell |-> "A", cost_sent |-> <<1, 50>>, cost_rec |-> <<1, 40>>],
     [modell |-> "B", cost_sent |-> <<1, 20>>, cost_rec |-> <<1, 8>>]}

\* The table of the given columns (a sub-sequence of TableColumns) and rows.
TableOf(columns, rows) ==
    [index   |-> [r \in 1..Len(rows) |-> r - 1],
     columns |-> columns,
     data    |-> [c \in Range(columns) |-> [r \in 1..Len(rows) |-> rows[r][c]]]]

\* The sub-sequences of s.
SubSeqs(s) ==
    {SelectSeq(s, LAMBDA c : c \in S) : S \in SUBSET Range(s)}

ScenarioTables ==
    {TableOf(columns, rows) :
        columns \in SubSeqs(TableColumns), rows \in SeqsUpTo(RowPool, MaxRows)}

PricingColumns == <<"modell", "cost_sent", "cost_rec">>

\* The pricing tables: any of the entries, each at most once, in any order.
PricingTables ==
    {TableOf(PricingColumns, entries) :
        entries \in {e \in SeqsUpTo(EntryPool, Cardinality(EntryPool)) :
                        Cardinality(Range(e)) = Len(e)}}

CostArgs ==
    [df_costs            : ScenarioTables,
     df_llms             : PricingTables,
     models              : SeqsUpTo(Models, MaxModels),
     cost_sent           : {"cost_sent"},
     cost_rec            : {"cost_rec"},
     tokens_sent_col     : {"m_tokens_sent", QuestionCol("A")},
     tokens_received_col : {"m_tokens_received", QuestionCol("A")}]

\* The heap when the caller holds the tables a.df_costs and a.df_llms.
HeapOf(a) ==
    [obj \in 1..4 |-> CASE obj = CallerCosts -> a.df_costs
                        [] obj = CallerLlms -> a.df_llms
                        [] OTHER -> EmptyFrame]

InitCost ==
    /\ args \in CostArgs
    /\ heap = HeapOf(args)
    /\ ret = NoCall
    /\ pc = "ready"
    /\ round = 0
    /\ first = NoCall

\* calculate_total_cost(df_costs, df_llms, models, cost_sent, cost_rec,
\* tokens_sent_col, tokens_received_col) with the arguments a, the two tables
\* being the caller's objects of the heap: the two copies, the loop, and the
\* return of the table df_costs is bound to.
Run(a) ==
    \E refs \in {[df_costs |-> CopyRef(CallerCosts), df_llms |-> CopyRef(CallerLlms)]} :
    \E copied \in {[heap EXCEPT ![refs.df_costs] = CopyOf(heap[CallerCosts]),
                                ![refs.df_llms] = CopyOf(heap[CallerLlms])]} :
    \E out \in {ForModels(a, copied, refs, 1)} :
        /\ heap' = out.heap
        /\ ret' = IF out.status = "ok" THEN Ok(out.heap[refs.df_costs])
                  ELSE Raise(out.status)

\* A call with the arguments args; what it did is kept in first.
calculate_total_cost ==
    /\ pc = "ready"
    /\ Run(args)
    /\ first' = ret'
    /\ round' = 1
    /\ pc' = "cost"
    /\ UNCHANGED args

NextCost == calculate_total_cost

SpecCost == InitCost /\ [][NextCost]_vars

-----------------------------------------------------------------------------
(* Repeated calls: after a call, the caller may call calculate_total_cost  *)
(* on its two tables with another models list, and calls it again with the *)
(* arguments of the first call.  round counts the calls made.              *)

\* A call in between, for one other model or none.
OtherCall ==
    /\ pc = "cost"
    /\ round = 1
    /\ \E other \in {<<>>} \cup {<<m>> : m \in Models} :
          Run([args EXCEPT !.models = other])
    /\ round' = 2
    /\ UNCHANGED <<args, pc, first>>

\* The call with the arguments of the first call, again.
SecondCall ==
    /\ pc = "cost"
    /\ Run(args)
    /\ round' = round + 1
    /\ pc' = "again"
    /\ UNCHANGED <<args, first>>

NextRepeat == calculate_total_cost \/ OtherCall \/ SecondCall

SpecRepeat == InitCost /\ [][NextRepeat]_vars

-----------------------------------------------------------------------------
(* Claims about make_df_cost (SpecBuild).                                  *)

Returned == pc \in {"loop", "vec"} /\ ret.status = "ok"

\* The lengths of the five input collections.
Sizes ==
    <<Len(args.employees), Len(args.calls), Len(args.q_length),
      Len(args.a_length), Len(args.tokens_per_word)>>

AllNonEmpty == \A k \in 1..5 : Sizes[k] > 0

\* How many times v occurs in s.
Count(v, s) == Cardinality({i \in DOMAIN s : s[i] = v})

\* The rows of df that hold the values e, c, q, a, t.
RowsWith(df, e, c, q, a, t) ==
    {r \in 1..NRows(df) :
        /\ df.data["employees"][r] = e
        /\ df.data["calls"][r] = c
        /\ df.data["avg_words_per_q"][r] = q
        /\ df.data["avg_words_per_a"][r] = a
        /\ df.data["tokens_per_word"][r] = t}

\* C1 as stated: for non-empty inputs make_df_cost returns a table of
\* e1*c1*q1*a1*t1 rows in which every combination of input values appears in
\* exactly one row.
C1_EachCombinationOnce ==
    (pc \in {"loop", "vec"} /\ AllNonEmpty) =>
        /\ ret.status = "ok"
        /\ NRows(ret.df) = Product(Sizes)
        /\ \A e \in Range(args.employees), c \in Range(args.calls),
              q \in Range(args.q_length), a \in Range(args.a_length),
              t \in Range(args.tokens_per_word) :
                Cardinality(RowsWith(ret.df, e, c, q, a, t)) = 1

\* C1, amended: for non-empty inputs make_df_cost returns a table of
\* e1*c1*q1*a1*t1 rows in which every combination of input values appears in
\* as many rows as the product of the numbers of times its values occur in
\* their collections, which is one row when no collection repeats a value.
C1_RowsAreTheProduct ==
    (pc \in {"loop", "vec"} /\ AllNonEmpty) =>
        /\ ret.status = "ok"
        /\ NRows(ret.df) = Product(Sizes)
        /\ \A e \in Range(args.employees), c \in Range(args.calls),
              q \in Range(args.q_length), a \in Range(args.a_length),
              t \in Range(args.tokens_per_word) :
                Cardinality(RowsWith(ret.df, e, c, q, a, t)) =
                    Count(e, args.employees) * Count(c, args.calls)
                    * Count(q, args.q_length) * Count(a, args.a_length)
                    * Count(t, args.tokens_per_word)

\* The vectorized make_df_cost has returned the table of two distinct
\* employee counts, two distinct call counts and a repeated question length.
C1_Witness ==
    /\ pc = "vec"
    /\ ret.status = "ok"
    /\ AllNonEmpty
    /\ Cardinality(Range(args.employees)) = 2
    /\ Cardinality(Range(args.calls)) = 2
    /\ Len(args.q_length) = 2
    /\ NRows(ret.df) >= 8

\* ((employees * calls) * words * tokens_per_word) / 1_000_000 of row r.
TokensOfRow(df, r, words) ==
    Div(Mul(Mul(Mul(df.data["employees"][r], df.data["calls"][r]),
                df.data[words][r]),
            df.data["tokens_per_word"][r]),
        R(Million))

\* C2: in every row make_df_cost returns, m_tokens_sent and m_tokens_received
\* are (employees * calls * words * tokens_per_word) / 1_000_000 of the
\* values stored in that row, employees included.
C2_TokensFromRowValues ==
    Returned =>
        \A r \in 1..NRows(ret.df) :
            /\ ret.df.data["m_tokens_sent"][r]
                 = TokensOfRow(ret.df, r, "avg_words_per_q")
            /\ ret.df.data["m_tokens_received"][r]
                 = TokensOfRow(ret.df, r, "avg_words_per_a")

\* C3: make_df_cost called with an empty input collection raises, and never
\* returns a table of zero rows.
C3_EmptyInputRaises ==
    /\ (pc \in {"loop", "vec"} /\ ~AllNonEmpty) => ret.status # "ok"
    /\ Returned => NRows(ret.df) > 0

\* What holds instead of C3: the loop variant raises ValueError for an empty
\* calls, q_length or a_length; the vectorized variant returns zero rows.
EmptyInputOutcome ==
    /\ (pc = "loop" /\ ~AllNonEmpty) => ret.status = "ValueError"
    /\ (pc = "vec" /\ ~AllNonEmpty) => (ret.status = "ok" /\ NRows(ret.df) = 0)

\* What holds instead of C2: the loop variant's rows are those of 800
\* employees, whatever employees is; the vectorized variant's are the row's.
TokensOutcome ==
    /\ (pc = "vec" /\ ret.status = "ok") => C2_TokensFromRowValues
    /\ (pc = "loop" /\ ret.status = "ok") =>
          \A r \in 1..NRows(ret.df) :
             /\ ret.df.data["m_tokens_sent"][r] =
                  LoopTokensSent(ret.df.data["calls"][r],
                                 ret.df.data["avg_words_per_q"][r],
                                 ret.df.data["tokens_per_word"][r])
             /\ ret.df.data["employees"][r] = args.employees[1]

-----------------------------------------------------------------------------
(* Claims about calculate_total_cost (SpecCost, SpecRepeat).               *)

\* The call has ended, by a return or by an exception.
Called == pc = "cost"

\* The number of pricing entries of a model.
Entries(model) == Len(Loc(args.df_llms, model, "modell"))

\* The sent and received rates of a model with one pricing entry.
SentRate(model) == Loc(args.df_llms, model, args.cost_sent)[1]
ReceivedRate(model) == Loc(args.df_llms, model, args.cost_rec)[1]

\* Both token columns are columns of the scenario table handed in.
TokenColumnsGiven ==
    /\ HasColumn(args.df_costs, args.tokens_sent_col)
    /\ HasColumn(args.df_costs, args.tokens_received_col)

GeneratedCols(model) == {QuestionCol(model), AnswerCol(model), TotalCol(model)}

\* A generated name of the i-th entry of models names a column of the
\* scenario table handed in or one generated for an earlier entry.
CollidesAt(i) ==
    GeneratedCols(args.models[i]) \cap
        (Range(args.df_costs.columns)
           \cup UNION {GeneratedCols(args.models[j]) : j \in 1..(i - 1)}) # {}

Collides == \E i \in DOMAIN args.models : CollidesAt(i)

\* C4: in the table returned, for every requested model with exactly one
\* pricing entry and every row, question cost = sent tokens of the row (in
\* the scenario table handed in) * sent rate, answer cost = received tokens
\* * received rate, total cost = question cost + answer cost; so the values
\* of a model depend on no other entry of models.
C4_CostsOfEachModel ==
    (Called /\ ret.status = "ok" /\ TokenColumnsGiven) =>
        \A i \in DOMAIN args.models :
            LET model == args.models[i] IN
            Entries(model) = 1 =>
                \A r \in 1..NRows(args.df_costs) :
                    /\ ret.df.data[QuestionCol(model)][r] =
                         Mul(args.df_costs.data[args.tokens_sent_col][r], SentRate(model))
                    /\ ret.df.data[AnswerCol(model)][r] =
                         Mul(args.df_costs.data[args.tokens_received_col][r],
                             ReceivedRate(model))
                    /\ ret.df.data[TotalCol(model)][r] =
                         Add(ret.df.data[QuestionCol(model)][r],
                             ret.df.data[AnswerCol(model)][r])

\* What holds instead of C4: the same, for calls in which no generated
\* name collides with a column.
CostsOfEachModelUnlessCollision == Collides \/ C4_CostsOfEachModel

C6_UnknownModelRaises ==
    (Called /\ \E i \in DOMAIN args.models : Entries(args.models[i]) # 1)
        => ret.status # "ok"

\* What holds instead of C6: the call raises unless every model with no or
\* several entries has as many entries as the scenario table has rows.
UnknownModelOutcome ==
    (Called /\ TokenColumnsGiven) =>
        (ret.status = "ok" <=>
            \A i \in DOMAIN args.models :
                \/ Entries(args.models[i]) = 1
                \/ Entries(args.models[i]) = NRows(args.df_costs))

\* C7: a call raises when the scenario table lacks the column named by
\* tokens_sent_col or the one named by tokens_received_col, whatever models.
C7_MissingColumnRaises ==
    (Called /\ ~TokenColumnsGiven) => ret.status # "ok"

\* What holds instead of C7: with a column missing, a call returns only for
\* an empty models list or when an iteration has added the missing column.
MissingColumnOutcome ==
    (Called /\ ~TokenColumnsGiven /\ ret.status = "ok") =>
        \/ args.models = <<>>
        \/ \E i \in DOMAIN args.models :
              {args.tokens_sent_col, args.tokens_received_col}
                  \cap GeneratedCols(args.models[i]) # {}

\* C8: a call raises when a generated column name collides with a column of
\* the table being built.
C8_CollisionRaises == (Called /\ Collides) => ret.status # "ok"

\* C9: the table returned has the rows of the scenario table in their
\* order, its columns with their values, and three more columns for each
\* entry of models.
C9_TableExtended ==
    (Called /\ ret.status = "ok") =>
        /\ ret.df.index = args.df_costs.index
        /\ Len(ret.df.columns) = Len(args.df_costs.columns) + 3 * Len(args.models)
        /\ SubSeq(ret.df.columns, 1, Len(args.df_costs.columns)) = args.df_costs.columns
        /\ \A c \in Range(args.df_costs.columns) : ret.df.data[c] = args.df_costs.data[c]

\* What holds instead of C9: the same, for calls in which no generated
\* name collides with a column.
TableExtendedUnlessCollision == Collides \/ C9_TableExtended

\* C10: the second of two calls with the same tables, models and column
\* names does what the first did (the same table returned, or the same
\* exception), whether or not another call was made in between.
C10_SameOutputAgain == pc = "again" => ret = first

\* The second call has returned a table with cost columns after a call in
\* between for another model.
C10_Witness ==
    /\ pc = "again"
    /\ round = 3
    /\ ret.status = "ok"
    /\ args.models # <<>>
    /\ NRows(ret.df) > 0
    /\ \E m \in Models : HasColumn(heap[CopyRef(CallerCosts)], QuestionCol(m))
    /\ first = ret

=============================================================================
